---- MODULE Spec2Model ----
(***************************************************************************)
(* Model of AgentOps/Scripts/codebase_to_markdown.py: the Markdown dump    *)
(* of a source tree (main), its binary detector (is_binary_file), its      *)
(* .gitignore resolution (parse_gitignore, get_gitignore_patterns,         *)
(* matches_gitignore) and the fnmatch-based exclude patterns.              *)
(*                                                                         *)
(* A string is a sequence of one-character strings, a path a sequence of   *)
(* names (absolute paths start below the filesystem root, so <<>> is "/"), *)
(* and a file's content a sequence of runs [b |-> byte, n |-> count].      *)
(* The platform is POSIX: fnmatch's normcase is the identity there.        *)
(***************************************************************************)
EXTENDS Integers, Sequences, FiniteSets, TLC

(***************************************************************************)
(* Strings                                                                 *)
(***************************************************************************)
RECURSIVE Join(_, _)
\* sep.join(parts)
Join(parts, sep) ==
    IF parts = <<>> THEN <<>>
    ELSE IF Len(parts) = 1 THEN parts[1]
    ELSE parts[1] \o sep \o Join(Tail(parts), sep)

\* s.startswith(p)
StartsWith(s, p) == Len(s) >= Len(p) /\ SubSeq(s, 1, Len(p)) = p

\* s.endswith(p)
EndsWith(s, p) == Len(s) >= Len(p) /\ SubSeq(s, Len(s) - Len(p) + 1, Len(s)) = p

\* s[k:]
DropFirst(s, k) == SubSeq(s, k + 1, Len(s))

\* s[:-k]
DropLast(s, k) == SubSeq(s, 1, Len(s) - k)

RECURSIVE RStrip(_, _)
\* s.rstrip(c) for a one-character c
RStrip(s, c) ==
    IF s # <<>> /\ s[Len(s)] = c THEN RStrip(DropLast(s, 1), c) ELSE s

Whitespace == {" ", "\t", "\n", "\r"}

RECURSIVE LStripWs(_)
LStripWs(s) == IF s # <<>> /\ s[1] \in Whitespace THEN LStripWs(Tail(s)) ELSE s

RECURSIVE RStripWs(_)
RStripWs(s) ==
    IF s # <<>> /\ s[Len(s)] \in Whitespace THEN RStripWs(DropLast(s, 1)) ELSE s

\* s.strip()
Strip(s) == LStripWs(RStripWs(s))

\* c.lower() for one character
LowerChar(c) ==
    CASE c = "A" -> "a" [] c = "B" -> "b" [] c = "C" -> "c" [] c = "D" -> "d"
      [] c = "E" -> "e" [] c = "F" -> "f" [] c = "G" -> "g" [] c = "H" -> "h"
      [] c = "I" -> "i" [] c = "J" -> "j" [] c = "K" -> "k" [] c = "L" -> "l"
      [] c = "M" -> "m" [] c = "N" -> "n" [] c = "O" -> "o" [] c = "P" -> "p"
      [] c = "Q" -> "q" [] c = "R" -> "r" [] c = "S" -> "s" [] c = "T" -> "t"
      [] c = "U" -> "u" [] c = "V" -> "v" [] c = "W" -> "w" [] c = "X" -> "x"
      [] c = "Y" -> "y" [] c = "Z" -> "z" [] OTHER -> c

\* s.lower()
Lower(s) == [i \in 1..Len(s) |-> LowerChar(s[i])]

\* name.rfind("."), 1-based; 0 when there is no dot
RFindDot(name) ==
    LET at == {i \in 1..Len(name) : name[i] = "."}
    IN  IF at = {} THEN 0 ELSE CHOOSE i \in at : \A j \in at : j <= i

\* pathlib's PurePath.suffix: the final extension, "" for a leading or
\* trailing dot
Suffix(name) ==
    LET i == RFindDot(name)
    IN  IF 1 < i /\ i < Len(name) THEN SubSeq(name, i, Len(name)) ELSE <<>>

(***************************************************************************)
(* fnmatch.fnmatch: "*" matches any run of characters ("/" included), "?"  *)
(* one character, anything else itself; the whole string must match.       *)
(* No pattern of the model holds a "[", so bracket expressions never arise.*)
(***************************************************************************)
RECURSIVE fnmatch(_, _)
fnmatch(s, p) ==
    IF p = <<>> THEN s = <<>>
    ELSE IF Head(p) = "*"
         THEN \E k \in 0..Len(s) : fnmatch(DropFirst(s, k), Tail(p))
    ELSE IF s = <<>> THEN FALSE
    ELSE IF Head(p) = "?" THEN fnmatch(Tail(s), Tail(p))
    ELSE Head(s) = Head(p) /\ fnmatch(Tail(s), Tail(p))

(***************************************************************************)
(* is_binary_file                                                          *)
(***************************************************************************)
BINARY_EXTENSIONS ==
    {
      <<".","j","p","g">>, <<".","j","p","e","g">>, <<".","p","n","g">>, <<".","g","i","f">>,
      <<".","b","m","p">>, <<".","s","v","g">>, <<".","i","c","o">>, <<".","w","e","b","p">>,
      <<".","t","i","f","f">>, <<".","t","i","f">>, <<".","m","p","4">>, <<".","a","v","i">>,
      <<".","m","o","v">>, <<".","w","m","v">>, <<".","f","l","v">>, <<".","w","e","b","m">>,
      <<".","m","k","v">>, <<".","m","4","v">>, <<".","m","p","3">>, <<".","w","a","v">>,
      <<".","f","l","a","c">>, <<".","a","a","c">>, <<".","o","g","g">>, <<".","w","m","a">>,
      <<".","m","4","a">>, <<".","z","i","p">>, <<".","r","a","r">>, <<".","7","z">>,
      <<".","t","a","r">>, <<".","g","z">>, <<".","b","z","2">>, <<".","x","z">>,
      <<".","p","d","f">>, <<".","d","o","c">>, <<".","d","o","c","x">>, <<".","x","l","s">>,
      <<".","x","l","s","x">>, <<".","p","p","t">>, <<".","p","p","t","x">>, <<".","e","x","e">>,
      <<".","d","l","l">>, <<".","s","o">>, <<".","d","y","l","i","b">>, <<".","b","i","n">>,
      <<".","a","p","p">>, <<".","d","e","b">>, <<".","r","p","m">>, <<".","m","s","i">>,
      <<".","t","t","f">>, <<".","o","t","f">>, <<".","w","o","f","f">>, <<".","w","o","f","f","2">>,
      <<".","e","o","t">>, <<".","d","b">>, <<".","s","q","l","i","t","e">>, <<".","s","q","l","i","t","e","3">>,
      <<".","m","d","b">>, <<".","i","s","o">>, <<".","i","m","g">>, <<".","d","m","g">>,
      <<".","t","o","a","s","t">>, <<".","v","c","d">>
    }

\* f.read(1024) reads at most this many bytes
ChunkSize == 1024

\* the ratio 0.30 as RatioNum / RatioDen.  For a chunk of at most 1024 bytes
\* the float test k / n > 0.30 agrees with RatioDen * k > RatioNum * n: k / n
\* is correctly rounded, so it equals the float 0.30 exactly when 10k = 3n.
RatioNum == 3
RatioDen == 10

\* bytearray({7,8,9,10,12,13,27} | set(range(0x20, 0x100)) - {0x7f}):
\* "-" binds tighter than "|"
text_chars == {7, 8, 9, 10, 12, 13, 27} \cup ((32..255) \ {127})

RECURSIVE BLen(_)
\* len(bytes)
BLen(runs) == IF runs = <<>> THEN 0 ELSE Head(runs).n + BLen(Tail(runs))

RECURSIVE ReadBytes(_, _)
\* f.read(k): the first k bytes of the content, or all of it if shorter
ReadBytes(runs, k) ==
    IF runs = <<>> \/ k = 0 THEN <<>>
    ELSE IF Head(runs).n >= k THEN << [b |-> Head(runs).b, n |-> k] >>
    ELSE << Head(runs) >> \o ReadBytes(Tail(runs), k - Head(runs).n)

\* byte in chunk
HasByte(runs, byte) == \E i \in 1..Len(runs) : runs[i].b = byte /\ runs[i].n > 0

RECURSIVE Translate(_, _)
\* chunk.translate(None, delete): the chunk without the bytes in delete
Translate(runs, delete) ==
    IF runs = <<>> THEN <<>>
    ELSE IF Head(runs).b \in delete THEN Translate(Tail(runs), delete)
    ELSE << Head(runs) >> \o Translate(Tail(runs), delete)

\* ChunkIsBinary with the strict comparison weakened to >=
ChunkIsBinary_AtLeast(chunk) ==
    IF HasByte(chunk, 0) THEN TRUE
    ELSE BLen(chunk) # 0
         /\ RatioDen * BLen(Translate(chunk, text_chars)) >= RatioNum * BLen(chunk)

\* the content test of is_binary_file on the sampled chunk
ChunkIsBinary(chunk) ==
    IF HasByte(chunk, 0) THEN TRUE
    ELSE BLen(chunk) # 0
         /\ RatioDen * BLen(Translate(chunk, text_chars)) > RatioNum * BLen(chunk)

\* is_binary_file with the extension compared without lower()
is_binary_file_NoLower(f) ==
    IF Suffix(f.name) \in BINARY_EXTENSIONS THEN TRUE
    ELSE IF f.rd = "noopen" THEN TRUE
    ELSE ChunkIsBinary(ReadBytes(f.content, ChunkSize))

\* f is a file [name, content, rd]; rd = "noopen" makes open() raise OSError
is_binary_file(f) ==
    IF Lower(Suffix(f.name)) \in BINARY_EXTENSIONS THEN TRUE
    ELSE IF f.rd = "noopen" THEN TRUE
    ELSE ChunkIsBinary(ReadBytes(f.content, ChunkSize))

(***************************************************************************)
(* State of one run of main()                                              *)
(***************************************************************************)
VARIABLES
    args,       \* the parsed command line: source, output, exclude,
                \* exclude_patterns, force (paths already resolved)
    cwd,        \* the process's working directory, Path('.').resolve()
    env,        \* the environment's faults and listing order
    fs_dirs,    \* the directories that exist (absolute paths)
    fs_files,   \* the files that exist (absolute paths)
    pc,         \* main's position
    gitignore_map,              \* sequence of [dir, patterns], insertion order
    md_file,                    \* the section headings written so far
    out_state,                  \* "absent", "old" or "written"
    processed_count,
    skipped_excluded_dir,
    skipped_gitignore,
    skipped_read_error,
    skipped_output_file,
    skipped_pattern_exclude,
    total_skipped,
    stack,      \* os.walk's directories still to list, next one first
    root,       \* the directory os.walk yielded last
    dirs,       \* its dirs list, as main has filtered it so far
    todo,       \* the copy list(dirs) the directory loop still has to visit
    ftodo,      \* the files the file loop still has to visit
    dirs_to_remove_std_exclude,
    dirs_to_remove_gitignore,
    dirs_to_remove_pattern,
    io,         \* history: the filesystem operations performed
    log,        \* history: the decision taken for each entry examined
    bin_file,   \* the detector on its own: the file it is called on
    bin_result  \* and its verdict

VARIABLES
    tree_env,       \* tree_gitignore.py: the filesystem its run sees
    start_dir,      \* the resolved directory argument
    tree_pc,        \* where its main() is: "main", "tree" or "done"
    gitignore_root, \* the directory of the ignore file found, or start_dir
    tree_patterns,  \* the lines the spec is built from
    calls,          \* the calls of build_tree in progress, innermost first
    tree_out        \* the lines printed so far

cfgvars == <<args, cwd, env>>
fsvars == <<fs_dirs, fs_files>>
counters ==
    <<processed_count, skipped_excluded_dir, skipped_gitignore,
      skipped_read_error, skipped_output_file, skipped_pattern_exclude>>
loopvars ==
    <<root, dirs, todo, ftodo, dirs_to_remove_std_exclude,
      dirs_to_remove_gitignore, dirs_to_remove_pattern>>
mainvars ==
    <<cfgvars, fsvars, pc, gitignore_map, md_file, out_state, counters,
      total_skipped, stack, loopvars, io, log>>
binvars == <<bin_file, bin_result>>
treevars ==
    <<tree_env, start_dir, tree_pc, gitignore_root, tree_patterns, calls, tree_out>>
vars == <<mainvars, binvars, treevars>>

(***************************************************************************)
(* Paths                                                                   *)
(***************************************************************************)
RECURSIVE Split(_, _)
\* s.split(c): the pieces of s between occurrences of the character c
Split(s, c) ==
    LET at == {i \in 1..Len(s) : s[i] = c}
    IN  IF at = {} THEN << s >>
        ELSE LET i == CHOOSE j \in at : \A k \in at : j <= k
             IN  << SubSeq(s, 1, i - 1) >> \o Split(DropFirst(s, i), c)

\* Path(s).parts for a relative s: empty and "." components are dropped
PathOf(s) == SelectSeq(Split(s, "/"), LAMBDA part : part # <<>> /\ part # <<".">>)

\* Path.as_posix(): the parts joined by "/", "." for the empty path
AsPosix(parts) == IF parts = <<>> THEN <<".">> ELSE Join(parts, <<"/">>)

\* s.replace('\\', '/')
ReplaceBackslash(s) == [i \in 1..Len(s) |-> IF s[i] = "\\" THEN "/" ELSE s[i]]

\* p.as_posix().replace('\\', '/')
PosixOf(parts) == ReplaceBackslash(AsPosix(parts))

\* base is p or an ancestor of p
IsUnder(p, base) == Len(base) <= Len(p) /\ SubSeq(p, 1, Len(base)) = base

\* p.relative_to(base), defined when IsUnder(p, base); otherwise ValueError
RelativeTo(p, base) == DropFirst(p, Len(base))

\* p.parent (the root is its own parent)
Parent(p) == IF p = <<>> THEN <<>> ELSE DropLast(p, 1)

\* p.name
NameOf(p) == p[Len(p)]

\* p and its ancestors up to the root: what mkdir(parents=True) creates
RECURSIVE WithAncestors(_)
WithAncestors(p) == IF p = <<>> THEN { <<>> } ELSE {p} \cup WithAncestors(Parent(p))

(***************************************************************************)
(* The filesystem the run sees                                             *)
(***************************************************************************)
\* the order in which the filesystem enumerates names; env.reverse turns it
\* round
NameOrder ==
    << <<"b","u","i","l","d">>, <<"b","i","n">>, <<"s","u","b">>, <<"n","a","m","e">>, <<".","h","i","d">>, <<"o","b","j">>,
       <<"a",".","p","y">>, <<"b",".","l","o","g">>, <<".","g","i","t","i","g","n","o","r","e">>, <<"o","u","t",".","m","d">>, <<"o","u","t",".","t","x","t">>, <<"x",".","p","y">>,
       <<"c",".","P","N","G">>, <<"n","u","l">>, <<"h",".","p","y">>, <<"y",".","p","y">>, <<"n",".","t","x","t">> >>

Reverse(s) == [i \in 1..Len(s) |-> s[Len(s) + 1 - i]]

ScanOrder == IF env.reverse THEN Reverse(NameOrder) ELSE NameOrder

\* os.walk's dirs for the directory d: its subdirectories, in scan order
ListDirs(d) == SelectSeq(ScanOrder, LAMBDA n : Append(d, n) \in fs_dirs)

\* os.walk's files for the directory d: its other entries, in scan order
ListFiles(d) == SelectSeq(ScanOrder, LAMBDA n : Append(d, n) \in fs_files)

\* the bytes of the file at p
ContentOf(p) ==
    IF NameOf(p) = <<"n","u","l">> THEN << [b |-> 65, n |-> 3], [b |-> 0, n |-> 1] >>
    ELSE << [b |-> 65, n |-> 8], [b |-> 10, n |-> 1] >>

\* the file at p as is_binary_file and open() see it
FileAt(p) ==
    [ name |-> NameOf(p),
      content |-> ContentOf(p),
      rd |-> IF p \in env.noopen THEN "noopen"
             ELSE IF p \in env.failread THEN "failread" ELSE "ok" ]

(***************************************************************************)
(* parse_gitignore, get_gitignore_patterns, matches_gitignore              *)
(***************************************************************************)
\* the patterns of the .gitignore file at gitignore_path
parse_gitignore(gitignore_path) ==
    IF gitignore_path \notin fs_files THEN <<>>
    ELSE IF gitignore_path \in env.noopen THEN <<>>
    ELSE LET lines == env.gitignores[Parent(gitignore_path)]
             stripped == [i \in 1..Len(lines) |-> Strip(lines[i])]
         IN  SelectSeq(stripped, LAMBDA line : line # <<>> /\ ~StartsWith(line, <<"#">>))

RECURSIVE get_gitignore_patterns(_)
\* the scopes from directory up to the root that hold a .gitignore with at
\* least one pattern, nearest first
get_gitignore_patterns(directory) ==
    LET gitignore_file == Append(directory, <<".","g","i","t","i","g","n","o","r","e">>)
        patterns == parse_gitignore(gitignore_file)
        here == IF gitignore_file \in fs_files /\ patterns # <<>>
                THEN << [dir |-> directory, patterns |-> patterns] >>
                ELSE <<>>
    IN  IF directory = <<>> THEN here
        ELSE here \o get_gitignore_patterns(Parent(directory))

\* one pattern of a scope against the path taken relative to that scope
PatternIgnores(pattern, rel_posix) ==
    LET is_dir_pattern == EndsWith(pattern, <<"/">>)
        match_pattern == RStrip(pattern, "/")
        parts == PathOf(rel_posix)
    IN  /\ \/ fnmatch(rel_posix, match_pattern)
           \/ fnmatch(rel_posix, match_pattern \o <<"/","*">>)
           \/ \E i \in 1..Len(parts) : fnmatch(parts[i], match_pattern)
        /\ is_dir_pattern =>
               \/ (cwd \o parts) \in fs_dirs
               \/ \E i \in 1..Len(parts) : parts[i] = match_pattern

\* one scope: the path must lie under gitignore_dir.relative_to(cwd), which
\* raises ValueError (scope skipped) unless cwd is gitignore_dir or above it
ScopeIgnores(scope, relative_path_posix) ==
    LET path_obj == PathOf(relative_path_posix)
    IN  /\ IsUnder(scope.dir, cwd)
        /\ IsUnder(path_obj, RelativeTo(scope.dir, cwd))
        /\ LET rel == AsPosix(RelativeTo(path_obj, RelativeTo(scope.dir, cwd)))
           IN  \E i \in 1..Len(scope.patterns) : PatternIgnores(scope.patterns[i], rel)

matches_gitignore(relative_path_posix, gitignore_patterns_map) ==
    \E k \in 1..Len(gitignore_patterns_map) :
        ScopeIgnores(gitignore_patterns_map[k], relative_path_posix)

(***************************************************************************)
(* Exclude patterns                                                        *)
(***************************************************************************)
\* pattern_to_test_against_dir without the stripping
pattern_to_test_against_dir_NoStrip(current_pattern_original) ==
    current_pattern_original

\* the pattern the directory test uses: a trailing "/*" or "/" stripped
pattern_to_test_against_dir(current_pattern_original) ==
    IF EndsWith(current_pattern_original, <<"/","*">>)
    THEN DropLast(current_pattern_original, 2)
    ELSE IF EndsWith(current_pattern_original, <<"/">>)
    THEN DropLast(current_pattern_original, 1)
    ELSE current_pattern_original

\* current_match_result of the directory loop for one pattern
DirMatchesPattern(dir_rel_path_posix, current_pattern_original) ==
    LET p == pattern_to_test_against_dir(current_pattern_original)
    IN  \/ fnmatch(dir_rel_path_posix, p)
        \/ /\ StartsWith(p, <<"*","*","/">>)
           /\ \A i \in 1..Len(dir_rel_path_posix) : dir_rel_path_posix[i] # "/"
           /\ fnmatch(dir_rel_path_posix, DropFirst(p, 3))

\* matched_by_exclude_pattern of the directory loop
matched_by_exclude_pattern(dir_rel_path_posix) ==
    \E i \in 1..Len(args.exclude_patterns) :
        DirMatchesPattern(dir_rel_path_posix, args.exclude_patterns[i])

\* file_matches_exclude_pattern of the file loop
file_matches_exclude_pattern(relative_path_posix) ==
    \E i \in 1..Len(args.exclude_patterns) :
        fnmatch(relative_path_posix, args.exclude_patterns[i])

(***************************************************************************)
(* The runs considered: command lines, working directories, trees, faults  *)
(***************************************************************************)
SRC == << <<"w">>, <<"p","r","o","j">> >>

\* argparse's default for --exclude
DefaultExclude == { <<".","g","i","t">>, <<".","v","s","c","o","d","e">>, <<".","i","d","e","a">>, <<"b","i","n">>, <<"o","b","j">>, <<"n","o","d","e","_","m","o","d","u","l","e","s">> }

\* argparse's default for --exclude-patterns
DefaultExcludePatterns ==
    << <<"*","*","/","E","x","a","m","p","l","e","s","/","*">>, <<"*","*","/","L","i","b","r","a","r","y","-","R","e","f","e","r","e","n","c","e","s","/","*">>, <<"*","*","/","A","r","c","h","i","v","e","/","*">> >>

SampleSources == { SRC, << <<"w">>, <<"m","i","s","s","i","n","g">> >> }
SampleOutputs == { << <<"w">>, <<"n","e","w">>, <<"o","u","t",".","m","d">> >>, SRC \o << <<"o","u","t",".","m","d">> >> }
SampleExcludes == { DefaultExclude, { <<"b","u","i","l","d">>, <<"n","a","m","e">> } }
SamplePatternSets ==
    { << <<"*","*","/","b","u","i","l","d","/","*">> >>,
      << <<"*","*","/","n","a","m","e">>, <<"*","*","/","o","b","j","/","*">> >>,
      << <<"*",".","l","o","g">>, <<"s","u","b","/">> >>,
      << <<"*",".","m","d">>, <<"n","a","m","e">>, <<"*",".","P","N","G">>, <<"*",".","l","o","g">>, <<"*","*","/","o","b","j","/","*">> >>,
      DefaultExcludePatterns }
SampleCwds == { SRC, << <<"w">> >> }
NoGitignore == [d \in {} |-> <<>>]
SampleGitignores ==
    { NoGitignore,
      SRC :> << <<"#"," ","l","o","g","s">>, <<>>, <<" ","*",".","l","o","g"," ">>, <<"b","u","i","l","d","/">>, <<"o","b","j","/">> >>,
      (<< <<"w">> >> :> << <<"*",".","p","y">> >>) @@ (SRC :> << <<"#"," ","n","o","t","h","i","n","g">> >>) }
NoFault == [noopen |-> {}, failread |-> {}, unlistable |-> {}]
SampleFaults ==
    { NoFault,
      [NoFault EXCEPT !.noopen = { SRC \o << <<"a",".","p","y">> >> }],
      [NoFault EXCEPT !.failread = { SRC \o << <<"a",".","p","y">> >> }],
      [NoFault EXCEPT !.unlistable = { SRC \o << <<"s","u","b">> >> }] }

TreeDirs(name_is_dir) ==
    { <<>>, << <<"w">> >>, SRC, SRC \o << <<"b","u","i","l","d">> >>, SRC \o << <<"b","i","n">> >>,
      SRC \o << <<"s","u","b">> >>, SRC \o << <<"s","u","b">>, <<".","h","i","d">> >>,
      SRC \o << <<"s","u","b">>, <<"o","b","j">> >> }
    \cup (IF name_is_dir THEN { SRC \o << <<"n","a","m","e">> >> } ELSE {})

TreeFiles(name_is_dir) ==
    { SRC \o << <<"a",".","p","y">> >>, SRC \o << <<"b",".","l","o","g">> >>,
      SRC \o << <<"b","u","i","l","d">>, <<"o","u","t",".","t","x","t">> >>, SRC \o << <<"b","i","n">>, <<"x",".","p","y">> >>,
      SRC \o << <<"s","u","b">>, <<"c",".","P","N","G">> >>, SRC \o << <<"s","u","b">>, <<"n","u","l">> >>,
      SRC \o << <<"s","u","b">>, <<".","h","i","d">>, <<"h",".","p","y">> >>, SRC \o << <<"s","u","b">>, <<"o","b","j">>, <<"y",".","p","y">> >> }
    \cup (IF name_is_dir THEN { SRC \o << <<"n","a","m","e">>, <<"n",".","t","x","t">> >> }
          ELSE { SRC \o << <<"n","a","m","e">> >> })

MainInit ==
    /\ args \in [ source : SampleSources, output : SampleOutputs,
                  exclude : SampleExcludes, exclude_patterns : SamplePatternSets,
                  force : BOOLEAN ]
    /\ cwd \in SampleCwds
    /\ \E fault \in SampleFaults, reverse \in BOOLEAN, gi \in SampleGitignores :
          env = [ noopen |-> fault.noopen, failread |-> fault.failread,
                  unlistable |-> fault.unlistable, reverse |-> reverse,
                  gitignores |-> gi ]
    /\ \E name_is_dir \in BOOLEAN, out_exists \in BOOLEAN :
          /\ out_exists => Parent(args.output) \in TreeDirs(name_is_dir)
          /\ args.force => out_exists
          /\ fs_dirs = TreeDirs(name_is_dir)
          /\ fs_files = TreeFiles(name_is_dir)
                 \cup { Append(d, <<".","g","i","t","i","g","n","o","r","e">>) : d \in DOMAIN env.gitignores }
                 \cup (IF out_exists THEN { args.output } ELSE {})
          /\ out_state = IF out_exists THEN "old" ELSE "absent"
    /\ pc = "check_source"
    /\ gitignore_map = <<>>
    /\ md_file = <<>>
    /\ processed_count = 0
    /\ skipped_excluded_dir = 0
    /\ skipped_gitignore = 0
    /\ skipped_read_error = 0
    /\ skipped_output_file = 0
    /\ skipped_pattern_exclude = 0
    /\ total_skipped = 0
    /\ stack = <<>>
    /\ root = <<>>
    /\ dirs = <<>>
    /\ todo = <<>>
    /\ ftodo = <<>>
    /\ dirs_to_remove_std_exclude = {}
    /\ dirs_to_remove_gitignore = {}
    /\ dirs_to_remove_pattern = {}
    /\ io = {}
    /\ log = {}

BinIdle == bin_file = [name |-> <<>>, content |-> <<>>, rd |-> "ok"] /\ bin_result = "none"

\* tree_gitignore.py is not running
TreeIdle ==
    /\ tree_env = [kind |-> <<>>, gitignore |-> <<>>, denied |-> {}, scan |-> <<>>]
    /\ start_dir = <<>>
    /\ tree_pc = "idle"
    /\ gitignore_root = <<>>
    /\ tree_patterns = <<>>
    /\ calls = <<>>
    /\ tree_out = <<>>

Init == MainInit /\ BinIdle /\ TreeIdle

(***************************************************************************)
(* main(): before the walk                                                 *)
(***************************************************************************)
\* lines 202-204: the source must be a directory
SourceMissing ==
    /\ pc = "check_source"
    /\ args.source \notin fs_dirs
    /\ pc' = "returned"
    /\ UNCHANGED <<treevars, binvars, cfgvars, fsvars, gitignore_map, md_file, out_state, counters,
                   total_skipped, stack, loopvars, io, log>>

SourceFound ==
    /\ pc = "check_source"
    /\ args.source \in fs_dirs
    /\ pc' = "check_output"
    /\ UNCHANGED <<treevars, binvars, cfgvars, fsvars, gitignore_map, md_file, out_state, counters,
                   total_skipped, stack, loopvars, io, log>>

\* lines 206-208: an existing output is kept unless --force
OutputCollision ==
    /\ pc = "check_output"
    /\ (args.output \in fs_files \/ args.output \in fs_dirs)
    /\ ~args.force
    /\ pc' = "returned"
    /\ UNCHANGED <<treevars, binvars, cfgvars, fsvars, gitignore_map, md_file, out_state, counters,
                   total_skipped, stack, loopvars, io, log>>

\* MakeOutputDir without the test for an existing output
MakeOutputDir_Unguarded ==
    /\ pc = "check_output"
    /\ fs_dirs' = fs_dirs \cup WithAncestors(Parent(args.output))
    /\ io' = io \cup { [op |-> "mkdir", path |-> Parent(args.output)] }
    /\ pc' = "gitignore"
    /\ UNCHANGED <<treevars, binvars, cfgvars, fs_files, gitignore_map, md_file, out_state, counters,
                   total_skipped, stack, loopvars, log>>

\* line 211: output_file.parent.mkdir(parents=True, exist_ok=True)
MakeOutputDir ==
    /\ pc = "check_output"
    /\ ~(args.output \in fs_files \/ args.output \in fs_dirs) \/ args.force
    /\ fs_dirs' = fs_dirs \cup WithAncestors(Parent(args.output))
    /\ io' = io \cup { [op |-> "mkdir", path |-> Parent(args.output)] }
    /\ pc' = "gitignore"
    /\ UNCHANGED <<treevars, binvars, cfgvars, fs_files, gitignore_map, md_file, out_state, counters,
                   total_skipped, stack, loopvars, log>>

\* line 220: gitignore_map = get_gitignore_patterns(source_dir)
CollectGitignore ==
    /\ pc = "gitignore"
    /\ gitignore_map' = get_gitignore_patterns(args.source)
    /\ io' = io \cup { [op |-> "is_file", path |-> Append(d, <<".","g","i","t","i","g","n","o","r","e">>)] :
                          d \in WithAncestors(args.source) }
    /\ pc' = "open"
    /\ UNCHANGED <<treevars, binvars, cfgvars, fsvars, md_file, out_state, counters, total_skipped,
                   stack, loopvars, log>>

\* lines 223-235: the counters start at zero, the output file is created or
\* truncated and gets its two header lines, os.walk starts at source_dir
OpenOutput ==
    /\ pc = "open"
    /\ fs_files' = fs_files \cup { args.output }
    /\ out_state' = "written"
    /\ md_file' = <<>>
    /\ io' = io \cup { [op |-> "open_w", path |-> args.output] }
    /\ stack' = << args.source >>
    /\ pc' = "walk"
    /\ UNCHANGED <<treevars, binvars, cfgvars, fs_dirs, gitignore_map, counters, total_skipped,
                   loopvars, log>>

(***************************************************************************)
(* main(): the walk, lines 235-370                                         *)
(***************************************************************************)
\* relative_dir_path of the directory being processed
relative_dir_path == RelativeTo(root, args.source)

\* os.walk has no directory left: the for loop ends
WalkExhausted ==
    /\ pc = "walk"
    /\ stack = <<>>
    /\ pc' = "summary"
    /\ UNCHANGED <<treevars, binvars, cfgvars, fsvars, gitignore_map, md_file, out_state, counters,
                   total_skipped, stack, loopvars, io, log>>

\* os.walk cannot list the next directory: with onerror=None the error is
\* swallowed and the directory yields nothing
WalkListFails ==
    /\ pc = "walk"
    /\ stack # <<>>
    /\ Head(stack) \in env.unlistable
    /\ stack' = Tail(stack)
    /\ io' = io \cup { [op |-> "scandir_failed", path |-> Head(stack)] }
    /\ UNCHANGED <<treevars, binvars, cfgvars, fsvars, pc, gitignore_map, md_file, out_state, counters,
                   total_skipped, loopvars, log>>

\* os.walk yields (root, dirs, files) for the next directory
WalkYield ==
    /\ pc = "walk"
    /\ stack # <<>>
    /\ Head(stack) \notin env.unlistable
    /\ root' = Head(stack)
    /\ stack' = Tail(stack)
    /\ dirs' = ListDirs(Head(stack))
    /\ ftodo' = ListFiles(Head(stack))
    /\ io' = io \cup { [op |-> "scandir", path |-> Head(stack)] }
    /\ pc' = "std_exclude"
    /\ UNCHANGED <<treevars, binvars, cfgvars, fsvars, gitignore_map, md_file, out_state, counters,
                   total_skipped, todo, dirs_to_remove_std_exclude,
                   dirs_to_remove_gitignore, dirs_to_remove_pattern, log>>

\* StdExclude without the test for a leading dot
StdExclude_LiteralOnly ==
    /\ pc = "std_exclude"
    /\ LET remove == { dirs[i] : i \in { j \in 1..Len(dirs) : dirs[j] \in args.exclude } }
           kept == SelectSeq(dirs, LAMBDA d : d \notin remove)
       IN  /\ dirs_to_remove_std_exclude' = remove
           /\ dirs' = kept
           /\ todo' = kept
    /\ dirs_to_remove_gitignore' = {}
    /\ dirs_to_remove_pattern' = {}
    /\ pc' = "dir_loop"
    /\ UNCHANGED <<treevars, binvars, cfgvars, fsvars, gitignore_map, md_file, out_state, counters,
                   total_skipped, stack, root, ftodo, io, log>>

\* lines 241-246: literal and hidden names leave dirs at once
StdExclude ==
    /\ pc = "std_exclude"
    /\ LET remove == { dirs[i] : i \in { j \in 1..Len(dirs) :
                                          \/ dirs[j] \in args.exclude
                                          \/ StartsWith(dirs[j], <<".">>) } }
           kept == SelectSeq(dirs, LAMBDA d : d \notin remove)
       IN  /\ dirs_to_remove_std_exclude' = remove
           /\ dirs' = kept
           /\ todo' = kept
    /\ dirs_to_remove_gitignore' = {}
    /\ dirs_to_remove_pattern' = {}
    /\ pc' = "dir_loop"
    /\ UNCHANGED <<treevars, binvars, cfgvars, fsvars, gitignore_map, md_file, out_state, counters,
                   total_skipped, stack, root, ftodo, io, log>>

\* dir_rel_path_posix of the directory the loop is at
dir_rel_path_posix == PosixOf(Append(relative_dir_path, Head(todo)))

DirEntry(verdict, bucket) ==
    [ rel |-> Append(relative_dir_path, Head(todo)), kind |-> "dir",
      verdict |-> verdict, bucket |-> bucket, cause |-> "none" ]

\* lines 287-292: an exclude pattern matches the directory
DirPatternExcluded ==
    /\ pc = "dir_loop"
    /\ todo # <<>>
    /\ matched_by_exclude_pattern(dir_rel_path_posix)
    /\ dirs_to_remove_pattern' = dirs_to_remove_pattern \cup { Head(todo) }
    /\ skipped_pattern_exclude' = skipped_pattern_exclude + 1
    /\ todo' = Tail(todo)
    /\ log' = log \cup { DirEntry("pattern", "pattern_exclude") }
    /\ UNCHANGED <<treevars, binvars, cfgvars, fsvars, pc, gitignore_map, md_file, out_state,
                   processed_count, skipped_excluded_dir, skipped_gitignore,
                   skipped_read_error, skipped_output_file, total_skipped, stack,
                   root, dirs, ftodo, dirs_to_remove_std_exclude,
                   dirs_to_remove_gitignore, io>>

\* DirGitignored without the short circuit after a pattern match
DirGitignored_Unordered ==
    /\ pc = "dir_loop"
    /\ todo # <<>>
    /\ matches_gitignore(dir_rel_path_posix, gitignore_map)
    /\ dirs_to_remove_gitignore' = dirs_to_remove_gitignore \cup { Head(todo) }
    /\ skipped_gitignore' = skipped_gitignore + 1
    /\ todo' = Tail(todo)
    /\ log' = log \cup { DirEntry("gitignore", "gitignore") }
    /\ UNCHANGED <<treevars, binvars, cfgvars, fsvars, pc, gitignore_map, md_file, out_state,
                   processed_count, skipped_excluded_dir, skipped_read_error,
                   skipped_output_file, skipped_pattern_exclude, total_skipped,
                   stack, root, dirs, ftodo, dirs_to_remove_std_exclude,
                   dirs_to_remove_pattern, io>>

\* lines 295-299: no pattern matches, an ignore rule does
DirGitignored ==
    /\ pc = "dir_loop"
    /\ todo # <<>>
    /\ ~matched_by_exclude_pattern(dir_rel_path_posix)
    /\ matches_gitignore(dir_rel_path_posix, gitignore_map)
    /\ dirs_to_remove_gitignore' = dirs_to_remove_gitignore \cup { Head(todo) }
    /\ skipped_gitignore' = skipped_gitignore + 1
    /\ todo' = Tail(todo)
    /\ log' = log \cup { DirEntry("gitignore", "gitignore") }
    /\ UNCHANGED <<treevars, binvars, cfgvars, fsvars, pc, gitignore_map, md_file, out_state,
                   processed_count, skipped_excluded_dir, skipped_read_error,
                   skipped_output_file, skipped_pattern_exclude, total_skipped,
                   stack, root, dirs, ftodo, dirs_to_remove_std_exclude,
                   dirs_to_remove_pattern, io>>

\* neither: the directory stays in dirs
DirKept ==
    /\ pc = "dir_loop"
    /\ todo # <<>>
    /\ ~matched_by_exclude_pattern(dir_rel_path_posix)
    /\ ~matches_gitignore(dir_rel_path_posix, gitignore_map)
    /\ todo' = Tail(todo)
    /\ log' = log \cup { DirEntry("kept", "none") }
    /\ UNCHANGED <<treevars, binvars, cfgvars, fsvars, pc, gitignore_map, md_file, out_state, counters,
                   total_skipped, stack, root, dirs, ftodo,
                   dirs_to_remove_std_exclude, dirs_to_remove_gitignore,
                   dirs_to_remove_pattern, io>>

\* FinishDirs counting the standard excludes of a directory as one
FinishDirs_CountsOnce ==
    /\ pc = "dir_loop"
    /\ todo = <<>>
    /\ skipped_excluded_dir' =
           skipped_excluded_dir + (IF dirs_to_remove_std_exclude = {} THEN 0 ELSE 1)
    /\ dirs' = SelectSeq(dirs, LAMBDA d : /\ d \notin dirs_to_remove_gitignore
                                          /\ d \notin dirs_to_remove_pattern)
    /\ log' = log \cup { [ rel |-> Append(relative_dir_path, d), kind |-> "dir",
                           verdict |-> "std_exclude", bucket |-> "excluded_dir",
                           cause |-> "none" ] : d \in dirs_to_remove_std_exclude }
    /\ pc' = "file_loop"
    /\ UNCHANGED <<treevars, binvars, cfgvars, fsvars, gitignore_map, md_file, out_state,
                   processed_count, skipped_gitignore, skipped_read_error,
                   skipped_output_file, skipped_pattern_exclude, total_skipped,
                   stack, root, todo, ftodo, dirs_to_remove_std_exclude,
                   dirs_to_remove_gitignore, dirs_to_remove_pattern, io>>

\* lines 301-307: the standard excludes are counted, and dirs loses what the
\* loop marked
FinishDirs ==
    /\ pc = "dir_loop"
    /\ todo = <<>>
    /\ skipped_excluded_dir' =
           skipped_excluded_dir + Cardinality(dirs_to_remove_std_exclude)
    /\ dirs' = SelectSeq(dirs, LAMBDA d : /\ d \notin dirs_to_remove_gitignore
                                          /\ d \notin dirs_to_remove_pattern)
    /\ log' = log \cup { [ rel |-> Append(relative_dir_path, d), kind |-> "dir",
                           verdict |-> "std_exclude", bucket |-> "excluded_dir",
                           cause |-> "none" ] : d \in dirs_to_remove_std_exclude }
    /\ pc' = "file_loop"
    /\ UNCHANGED <<treevars, binvars, cfgvars, fsvars, gitignore_map, md_file, out_state,
                   processed_count, skipped_gitignore, skipped_read_error,
                   skipped_output_file, skipped_pattern_exclude, total_skipped,
                   stack, root, todo, ftodo, dirs_to_remove_std_exclude,
                   dirs_to_remove_gitignore, dirs_to_remove_pattern, io>>

\* file_path, relative_path and relative_path_posix of the file the loop is at
file_path == Append(root, Head(ftodo))
relative_path == RelativeTo(file_path, args.source)
relative_path_posix == PosixOf(relative_path)

\* why is_binary_file says binary
BinaryCause(f) ==
    IF Lower(Suffix(f.name)) \in BINARY_EXTENSIONS THEN "extension"
    ELSE IF f.rd = "noopen" THEN "unreadable" ELSE "content"

FileEntry(verdict, bucket, cause) ==
    [ rel |-> relative_path, kind |-> "file", verdict |-> verdict,
      bucket |-> bucket, cause |-> cause ]

\* the file loop's tests, in the order of lines 317-350
IsOutputFile == file_path = args.output
IsBinary == is_binary_file(FileAt(file_path))
InExcludedPath == \E i \in 1..Len(relative_path) : relative_path[i] \in args.exclude
MatchesPattern == file_matches_exclude_pattern(relative_path_posix)
IsGitignored == matches_gitignore(relative_path_posix, gitignore_map)

\* what is_binary_file opens: nothing when the extension decides
BinaryProbe ==
    IF Lower(Suffix(Head(ftodo))) \in BINARY_EXTENSIONS THEN {}
    ELSE { [op |-> "open_rb", path |-> file_path] }

\* lines 317-320
FileIsOutput ==
    /\ pc = "file_loop"
    /\ ftodo # <<>>
    /\ IsOutputFile
    /\ skipped_output_file' = skipped_output_file + 1
    /\ ftodo' = Tail(ftodo)
    /\ log' = log \cup { FileEntry("output", "output_file", "none") }
    /\ UNCHANGED <<treevars, binvars, cfgvars, fsvars, pc, gitignore_map, md_file, out_state,
                   processed_count, skipped_excluded_dir, skipped_gitignore,
                   skipped_read_error, skipped_pattern_exclude, total_skipped,
                   stack, root, dirs, todo, dirs_to_remove_std_exclude,
                   dirs_to_remove_gitignore, dirs_to_remove_pattern, io>>

\* lines 323-326: binary files are counted as read errors
FileBinary ==
    /\ pc = "file_loop"
    /\ ftodo # <<>>
    /\ ~IsOutputFile
    /\ IsBinary
    /\ skipped_read_error' = skipped_read_error + 1
    /\ ftodo' = Tail(ftodo)
    /\ io' = io \cup BinaryProbe
    /\ log' = log \cup { FileEntry("binary", "read_error", BinaryCause(FileAt(file_path))) }
    /\ UNCHANGED <<treevars, binvars, cfgvars, fsvars, pc, gitignore_map, md_file, out_state,
                   processed_count, skipped_excluded_dir, skipped_gitignore,
                   skipped_output_file, skipped_pattern_exclude, total_skipped,
                   stack, root, dirs, todo, dirs_to_remove_std_exclude,
                   dirs_to_remove_gitignore, dirs_to_remove_pattern>>

\* lines 329-332
FileStdExcluded ==
    /\ pc = "file_loop"
    /\ ftodo # <<>>
    /\ ~IsOutputFile
    /\ ~IsBinary
    /\ InExcludedPath
    /\ skipped_excluded_dir' = skipped_excluded_dir + 1
    /\ ftodo' = Tail(ftodo)
    /\ io' = io \cup BinaryProbe
    /\ log' = log \cup { FileEntry("std_exclude", "excluded_dir", "none") }
    /\ UNCHANGED <<treevars, binvars, cfgvars, fsvars, pc, gitignore_map, md_file, out_state,
                   processed_count, skipped_gitignore, skipped_read_error,
                   skipped_output_file, skipped_pattern_exclude, total_skipped,
                   stack, root, dirs, todo, dirs_to_remove_std_exclude,
                   dirs_to_remove_gitignore, dirs_to_remove_pattern>>

\* lines 335-347
FilePatternExcluded ==
    /\ pc = "file_loop"
    /\ ftodo # <<>>
    /\ ~IsOutputFile
    /\ ~IsBinary
    /\ ~InExcludedPath
    /\ MatchesPattern
    /\ skipped_pattern_exclude' = skipped_pattern_exclude + 1
    /\ ftodo' = Tail(ftodo)
    /\ io' = io \cup BinaryProbe
    /\ log' = log \cup { FileEntry("pattern", "pattern_exclude", "none") }
    /\ UNCHANGED <<treevars, binvars, cfgvars, fsvars, pc, gitignore_map, md_file, out_state,
                   processed_count, skipped_excluded_dir, skipped_gitignore,
                   skipped_read_error, skipped_output_file, total_skipped,
                   stack, root, dirs, todo, dirs_to_remove_std_exclude,
                   dirs_to_remove_gitignore, dirs_to_remove_pattern>>

\* lines 350-353
FileGitignored ==
    /\ pc = "file_loop"
    /\ ftodo # <<>>
    /\ ~IsOutputFile
    /\ ~IsBinary
    /\ ~InExcludedPath
    /\ ~MatchesPattern
    /\ IsGitignored
    /\ skipped_gitignore' = skipped_gitignore + 1
    /\ ftodo' = Tail(ftodo)
    /\ io' = io \cup BinaryProbe
    /\ log' = log \cup { FileEntry("gitignore", "gitignore", "none") }
    /\ UNCHANGED <<treevars, binvars, cfgvars, fsvars, pc, gitignore_map, md_file, out_state,
                   processed_count, skipped_excluded_dir, skipped_read_error,
                   skipped_output_file, skipped_pattern_exclude, total_skipped,
                   stack, root, dirs, todo, dirs_to_remove_std_exclude,
                   dirs_to_remove_gitignore, dirs_to_remove_pattern>>

Accepted ==
    /\ pc = "file_loop"
    /\ ftodo # <<>>
    /\ ~IsOutputFile
    /\ ~IsBinary
    /\ ~InExcludedPath
    /\ ~MatchesPattern
    /\ ~IsGitignored

\* lines 357-359, 368-370: reading the whole file fails
FileReadError ==
    /\ Accepted
    /\ FileAt(file_path).rd # "ok"
    /\ skipped_read_error' = skipped_read_error + 1
    /\ ftodo' = Tail(ftodo)
    /\ io' = io \cup BinaryProbe \cup { [op |-> "open_r", path |-> file_path] }
    /\ log' = log \cup { FileEntry("read_failed", "read_error", "unreadable") }
    /\ UNCHANGED <<treevars, binvars, cfgvars, fsvars, pc, gitignore_map, md_file, out_state,
                   processed_count, skipped_excluded_dir, skipped_gitignore,
                   skipped_output_file, skipped_pattern_exclude, total_skipped,
                   stack, root, dirs, todo, dirs_to_remove_std_exclude,
                   dirs_to_remove_gitignore, dirs_to_remove_pattern>>

\* lines 357-366: the file's section is written
FileDumped ==
    /\ Accepted
    /\ FileAt(file_path).rd = "ok"
    /\ md_file' = Append(md_file, relative_path_posix)
    /\ processed_count' = processed_count + 1
    /\ ftodo' = Tail(ftodo)
    /\ io' = io \cup BinaryProbe \cup { [op |-> "open_r", path |-> file_path] }
    /\ log' = log \cup { FileEntry("dumped", "processed", "none") }
    /\ UNCHANGED <<treevars, binvars, cfgvars, fsvars, pc, gitignore_map, out_state,
                   skipped_excluded_dir, skipped_gitignore, skipped_read_error,
                   skipped_output_file, skipped_pattern_exclude, total_skipped,
                   stack, root, dirs, todo, dirs_to_remove_std_exclude,
                   dirs_to_remove_gitignore, dirs_to_remove_pattern>>

\* the loop body ends: os.walk resumes and queues what is left in dirs, in
\* order, ahead of everything queued before
EndOfDirectory ==
    /\ pc = "file_loop"
    /\ ftodo = <<>>
    /\ stack' = [i \in 1..Len(dirs) |-> Append(root, dirs[i])] \o stack
    /\ pc' = "walk"
    /\ UNCHANGED <<treevars, binvars, cfgvars, fsvars, gitignore_map, md_file, out_state, counters,
                   total_skipped, loopvars, io, log>>

\* lines 376-385: the summary
PrintSummary ==
    /\ pc = "summary"
    /\ total_skipped' = skipped_excluded_dir + skipped_gitignore + skipped_read_error
                          + skipped_output_file + skipped_pattern_exclude
    /\ pc' = "done"
    /\ UNCHANGED <<treevars, binvars, cfgvars, fsvars, gitignore_map, md_file, out_state, counters,
                   stack, loopvars, io, log>>

Next ==
    \/ SourceMissing \/ SourceFound \/ OutputCollision \/ MakeOutputDir
    \/ CollectGitignore \/ OpenOutput
    \/ WalkExhausted \/ WalkListFails \/ WalkYield
    \/ StdExclude \/ DirPatternExcluded \/ DirGitignored \/ DirKept \/ FinishDirs
    \/ FileIsOutput \/ FileBinary \/ FileStdExcluded \/ FilePatternExcluded
    \/ FileGitignored \/ FileReadError \/ FileDumped \/ EndOfDirectory
    \/ PrintSummary

Spec == Init /\ [][Next]_vars

(***************************************************************************)
(* The binary detector on its own: every bounded file, classified.         *)
(***************************************************************************)
\* bounds of the detector's inputs
MaxRuns == 2
SampleBytes == {0, 7, 65, 127, 200}
SampleLens == {1, 3, 7, 717, 1024}
SampleRuns == [b : SampleBytes, n : SampleLens]
SampleContents == UNION {[1..k -> SampleRuns] : k \in 0..MaxRuns}
SampleNames ==
    { <<"n","u","l">>, <<"a",".","p","y">>, <<"c",".","P","N","G">>,
      <<"x",".","t","a","r",".","g","z">>, <<".","d","b">> }
SampleFiles == [name : SampleNames, content : SampleContents, rd : {"ok", "noopen"}]

MainIdle ==
    /\ args = [ source |-> SRC, output |-> SRC \o << <<"o">> >>, exclude |-> {},
                exclude_patterns |-> <<>>, force |-> FALSE ]
    /\ cwd = SRC
    /\ env = [ noopen |-> {}, failread |-> {}, unlistable |-> {}, reverse |-> FALSE,
               gitignores |-> NoGitignore ]
    /\ fs_dirs = {}
    /\ fs_files = {}
    /\ out_state = "absent"
    /\ pc = "idle"
    /\ gitignore_map = <<>>
    /\ md_file = <<>>
    /\ processed_count = 0
    /\ skipped_excluded_dir = 0
    /\ skipped_gitignore = 0
    /\ skipped_read_error = 0
    /\ skipped_output_file = 0
    /\ skipped_pattern_exclude = 0
    /\ total_skipped = 0
    /\ stack = <<>>
    /\ root = <<>>
    /\ dirs = <<>>
    /\ todo = <<>>
    /\ ftodo = <<>>
    /\ dirs_to_remove_std_exclude = {}
    /\ dirs_to_remove_gitignore = {}
    /\ dirs_to_remove_pattern = {}
    /\ io = {}
    /\ log = {}

BinInit ==
    /\ bin_file \in SampleFiles
    /\ bin_result = "none"
    /\ MainIdle
    /\ TreeIdle

\* one call of is_binary_file on the chosen file
BinCall ==
    /\ bin_result = "none"
    /\ bin_result' = IF is_binary_file(bin_file) THEN "binary" ELSE "text"
    /\ UNCHANGED <<bin_file, mainvars, treevars>>

BinNext == BinCall

SpecBin == BinInit /\ [][BinNext]_vars

(***************************************************************************)
(* Claims about the binary detector                                        *)
(***************************************************************************)
RECURSIVE CountIn(_, _, _, _)
\* how many of the bytes at positions from+1 .. limit of the content lie
\* outside the set allowed
CountIn(runs, from, limit, allowed) ==
    IF runs = <<>> \/ from >= limit THEN 0
    ELSE LET upto == IF from + Head(runs).n > limit THEN limit ELSE from + Head(runs).n
             here == IF Head(runs).b \in allowed THEN 0 ELSE upto - from
         IN  here + CountIn(Tail(runs), from + Head(runs).n, limit, allowed)

\* the number of sampled bytes: the length of the file, at most 1024
SampledLen(f) == IF BLen(f.content) > 1024 THEN 1024 ELSE BLen(f.content)

\* a null byte among the first 1024 bytes
NullInSample(f) == CountIn(f.content, 0, 1024, (0..255) \ {0}) > 0

\* a null byte somewhere in the file
NullInFile(f) == CountIn(f.content, 0, BLen(f.content), (0..255) \ {0}) > 0

\* the allowed set as the claim words it
ClaimedAllowed == {9, 10, 12, 13, 27} \cup ((32..255) \ {127})

\* the allowed set with bell (7) and backspace (8) added
AmendedAllowed == {7, 8} \cup ClaimedAllowed

\* strictly more than 30% of the sampled bytes lie outside allowed
OverThreshold(f, allowed) ==
    10 * CountIn(f.content, 0, 1024, allowed) > 3 * SampledLen(f)

ContentDecided(f) ==
    f.rd = "ok" /\ Lower(Suffix(f.name)) \notin BINARY_EXTENSIONS

\* C9 (as stated): a readable file whose extension is not denylisted is binary
\* exactly when its sample holds a null byte or more than 30% of the sample
\* lies outside {9,10,12,13,27} with 0x20..0xFF minus 0x7F; an empty file is
\* text.
C9_AsStated ==
    (bin_result # "none" /\ ContentDecided(bin_file)) =>
        /\ (bin_result = "binary") <=>
               (NullInSample(bin_file) \/ OverThreshold(bin_file, ClaimedAllowed))
        /\ (bin_file.content = <<>> => bin_result = "text")

\* C9 (amended): the same with bell (7) and backspace (8) in the allowed set.
C9_ContentRule ==
    (bin_result # "none" /\ ContentDecided(bin_file)) =>
        /\ (bin_result = "binary") <=>
               (NullInSample(bin_file) \/ OverThreshold(bin_file, AmendedAllowed))
        /\ (bin_file.content = <<>> => bin_result = "text")

\* C9 witness: a readable, non-denylisted file without a null byte whose
\* sample is exactly 30% outside the allowed set has been classified text.
C9_Witness ==
    /\ bin_result = "text"
    /\ ContentDecided(bin_file)
    /\ SampledLen(bin_file) > 0
    /\ 10 * CountIn(bin_file.content, 0, 1024, AmendedAllowed) = 3 * SampledLen(bin_file)

\* C10: a file whose lower-cased final extension is denylisted is binary
\* whatever its content and readability; a file without an extension with a
\* null byte in its first 1024 bytes is binary; a readable file without an
\* extension whose first 1024 bytes are all allowed text is text even when a
\* null byte follows them.
C10_ExtensionRule ==
    bin_result # "none" =>
        /\ (Lower(Suffix(bin_file.name)) \in BINARY_EXTENSIONS => bin_result = "binary")
        /\ (Suffix(bin_file.name) = <<>> /\ NullInSample(bin_file)
                => bin_result = "binary")
        /\ ((Suffix(bin_file.name) = <<>>
              /\ bin_file.rd = "ok"
              /\ CountIn(bin_file.content, 0, 1024, AmendedAllowed) = 0
              /\ NullInFile(bin_file))
                => bin_result = "text")

\* C10 witness: an upper-case denylisted extension on readable, pure-text
\* content has been classified binary.
C10_Witness ==
    /\ bin_result = "binary"
    /\ bin_file.name = <<"c",".","P","N","G">>
    /\ bin_file.rd = "ok"
    /\ bin_file.content # <<>>
    /\ CountIn(bin_file.content, 0, BLen(bin_file.content), AmendedAllowed) = 0

(***************************************************************************)
(* Claims about the walk                                                   *)
(***************************************************************************)
\* p relative to the source root
SrcRel(p) == RelativeTo(p, args.source)

\* the directories and files of the tree below the source root
TreeDirsBelow == { d \in fs_dirs : IsUnder(d, args.source) /\ d # args.source }
TreeFilesBelow == { f \in fs_files : IsUnder(f, args.source) }

\* os.walk listed the directory d
Scanned(d) == [op |-> "scandir", path |-> d] \in io

\* some filesystem operation touched d or something beneath it
Touched(d) == \E e \in io : IsUnder(e.path, d)

\* a decision was recorded for something strictly beneath d
LoggedBelow(d) == \E e \in log : IsUnder(e.rel, SrcRel(d)) /\ e.rel # SrcRel(d)

\* a section was written for something beneath d
DumpedBelow(d) == \E i \in 1..Len(md_file) : IsUnder(PathOf(md_file[i]), SrcRel(d))

\* d or something beneath it is queued for listing, or is being processed
Queued(d) ==
    \/ \E i \in 1..Len(stack) : IsUnder(stack[i], d)
    \/ (pc \in {"std_exclude", "dir_loop", "file_loop"} /\ IsUnder(root, d))

\* main has finished the directory loop of d's parent
ParentFiltered(d) ==
    /\ Scanned(Parent(d))
    /\ ~(root = Parent(d) /\ pc \in {"std_exclude", "dir_loop"})

\* how many decisions were counted in a bucket
Counted(bucket) == Cardinality({ e \in log : e.bucket = bucket })

\* every counter holds one increment per decision recorded for its bucket
CountersMatchLog ==
    /\ processed_count = Counted("processed")
    /\ skipped_excluded_dir = Counted("excluded_dir")
    /\ skipped_pattern_exclude = Counted("pattern_exclude")
    /\ skipped_gitignore = Counted("gitignore")
    /\ skipped_output_file = Counted("output_file")
    /\ skipped_read_error = Counted("read_error")

\* the name is in the literal-exclude set or starts with a dot
StdName(n) == n \in args.exclude \/ n[1] = "."

\* C1: a subdirectory whose name is literal-excluded or hidden, at any depth,
\* is removed before descent: nothing beneath it is listed, opened, decided
\* or emitted, and all it changes is one increment of the standard-exclude
\* counter, for the directory itself.
C1_StdExcludePrunes ==
    /\ \A d \in TreeDirsBelow : StdName(NameOf(d)) =>
           /\ ~Touched(d) /\ ~Queued(d) /\ ~LoggedBelow(d) /\ ~DumpedBelow(d)
           /\ \A e \in log : e.rel = SrcRel(d) =>
                  e.verdict = "std_exclude" /\ e.bucket = "excluded_dir"
           /\ ParentFiltered(d) => \E e \in log : e.rel = SrcRel(d)
    /\ CountersMatchLog

\* C1 witness: the run is over, a hidden directory two levels down and a
\* literal-excluded one were each counted once, and files were dumped.
C1_Witness ==
    /\ pc = "done"
    /\ args.exclude = DefaultExclude
    /\ \E e \in log : e.rel = << <<"s","u","b">>, <<".","h","i","d">> >> /\ e.verdict = "std_exclude"
    /\ \E e \in log : e.rel = << <<"b","i","n">> >> /\ e.verdict = "std_exclude"
    /\ skipped_excluded_dir >= 2
    /\ md_file # <<>>

\* the ignore rule of section 4.1 for one pattern, on the candidate's path
\* relative to the rule's scope
RuleMatches(pattern, rel_posix, is_dir) ==
    LET name == RStrip(pattern, "/")
        parts == PathOf(rel_posix)
    IN  /\ \/ fnmatch(rel_posix, name)
           \/ fnmatch(rel_posix, name \o <<"/","*">>)
           \/ \E i \in 1..Len(parts) : fnmatch(parts[i], name)
        /\ EndsWith(pattern, <<"/">>) =>
               (is_dir \/ \E i \in 1..Len(parts) : parts[i] = name)

\* C2: a candidate under the source root whose path relative to a collected
\* scope matches a pattern of that scope is ignored by matches_gitignore and
\* never dumped (Scenario A: with "*.log" in the root's .gitignore, b.log has
\* no section).
C2_IgnoredNeverDumped ==
    \A k \in 1..Len(gitignore_map) :
      \A c \in TreeDirsBelow \cup TreeFilesBelow :
        (\E i \in 1..Len(gitignore_map[k].patterns) :
            RuleMatches(gitignore_map[k].patterns[i],
                        AsPosix(RelativeTo(c, gitignore_map[k].dir)),
                        c \in fs_dirs))
        => /\ matches_gitignore(PosixOf(SrcRel(c)), gitignore_map)
           /\ \A j \in 1..Len(md_file) : md_file[j] # PosixOf(SrcRel(c))

\* the entry got as far as the exclude-pattern test
ReachedPatternTest(e) ==
    \/ e.kind = "dir" /\ e.verdict \in {"pattern", "gitignore", "kept"}
    \/ e.kind = "file" /\ e.verdict \in {"pattern", "gitignore", "read_failed", "dumped"}

\* C3: an exclude pattern "**/x" rejects a candidate whose relative path is
\* the single segment x, file or directory, at the exclude-pattern step.
C3_AnchorMatchesRootName ==
    \A e \in log :
        (/\ ReachedPatternTest(e)
         /\ Len(e.rel) = 1
         /\ \E i \in 1..Len(args.exclude_patterns) :
               /\ StartsWith(args.exclude_patterns[i], <<"*","*","/">>)
               /\ fnmatch(e.rel[1], DropFirst(args.exclude_patterns[i], 3)))
        => e.verdict = "pattern"

\* C4: with the exclude pattern "**/build/*" and a top-level directory build
\* that holds out.txt, build is removed before descent, out.txt is never
\* visited, decided or emitted, and the pattern-exclude counter alone counts
\* the directory, once; and every directory the directory test matches after
\* stripping "/*" or "/" is pruned and counted once under pattern-exclude.
C4_PatternPrunes ==
    /\ (/\ \E i \in 1..Len(args.exclude_patterns) :
               args.exclude_patterns[i] = <<"*","*","/","b","u","i","l","d","/","*">>
        /\ <<"b","u","i","l","d">> \notin args.exclude
        /\ ParentFiltered(Append(args.source, <<"b","u","i","l","d">>)))
       => /\ [ rel |-> << <<"b","u","i","l","d">> >>, kind |-> "dir", verdict |-> "pattern",
               bucket |-> "pattern_exclude", cause |-> "none" ] \in log
          /\ \A e \in log : e.rel # << <<"b","u","i","l","d">>, <<"o","u","t",".","t","x","t">> >>
    /\ \A e \in log :
          (e.kind = "dir" /\ ReachedPatternTest(e)
             /\ \E i \in 1..Len(args.exclude_patterns) :
                   LET p == args.exclude_patterns[i]
                       q == IF EndsWith(p, <<"/","*">>) THEN DropLast(p, 2)
                            ELSE IF EndsWith(p, <<"/">>) THEN DropLast(p, 1) ELSE p
                   IN  fnmatch(PosixOf(e.rel), q))
          => e.verdict = "pattern" /\ e.bucket = "pattern_exclude"
    /\ \A e \in log : e.kind = "dir" /\ e.verdict = "pattern" =>
          LET d == args.source \o e.rel
          IN  /\ ~Touched(d) /\ ~Queued(d) /\ ~LoggedBelow(d) /\ ~DumpedBelow(d)
              /\ \A o \in log : o.rel = e.rel => o = e
    /\ CountersMatchLog

\* C4 witness: Scenario B has run to the end: build was counted under
\* pattern-exclude and no read error was counted.
C4_Witness ==
    /\ pc = "done"
    /\ args.exclude_patterns = << <<"*","*","/","b","u","i","l","d","/","*">> >>
    /\ \E e \in log : e.rel = << <<"b","u","i","l","d">> >> /\ e.bucket = "pattern_exclude"
    /\ Append(Append(args.source, <<"b","u","i","l","d">>), <<"o","u","t",".","t","x","t">>) \in fs_files
    /\ skipped_pattern_exclude = 1

\* the five skip counters together
SkipSum ==
    skipped_excluded_dir + skipped_pattern_exclude + skipped_gitignore
      + skipped_output_file + skipped_read_error

\* the files and the subdirectories found in the directories os.walk listed
FilesExamined == { f \in TreeFilesBelow : Scanned(Parent(f)) }
DirsExamined == { d \in TreeDirsBelow : Scanned(Parent(d)) }

\* the subdirectories main took out of dirs
DirsRemoved ==
    { d \in DirsExamined :
        \E e \in log : e.rel = SrcRel(d) /\ e.kind = "dir" /\ e.verdict # "kept" }

\* each counter holds one increment per decision taken for its bucket, a
\* removed directory and a file that was not dumped fall in exactly one of the
\* five skip buckets, a dumped file in the processed bucket alone, and a
\* directory that stays in the walk in none
OneBucketEach ==
    /\ CountersMatchLog
    /\ \A e \in log :
          /\ \A o \in log : o.rel = e.rel => o = e
          /\ (e.verdict = "dumped") <=> (e.bucket = "processed")
          /\ (e.verdict = "kept") <=> (e.bucket = "none")
          /\ e.bucket \in {"processed", "none", "excluded_dir", "pattern_exclude",
                           "gitignore", "output_file", "read_error"}
    /\ \A i \in 1..Len(md_file) :
          \E e \in log : e.verdict = "dumped" /\ PosixOf(e.rel) = md_file[i]
    /\ Len(md_file) = processed_count

\* C5 (as stated): after a walk, processed plus the five skip counters equals
\* the number of files and immediate subdirectory entries the walk examined,
\* and the reported total is the sum of the five buckets.
C5_AsStated ==
    pc = "done" =>
        /\ OneBucketEach
        /\ processed_count + SkipSum
             = Cardinality(FilesExamined) + Cardinality(DirsExamined)
        /\ total_skipped = SkipSum

\* C5 (amended): after a walk, processed plus the five skip counters equals
\* the number of files examined plus the number of subdirectories removed
\* (a subdirectory that stays in the walk increments nothing), every decision
\* lands in exactly one bucket, and the reported total is the sum of the five.
C5_Accounting ==
    /\ OneBucketEach
    /\ pc = "done" =>
        /\ \A f \in FilesExamined : \E e \in log : e.rel = SrcRel(f) /\ e.kind = "file"
        /\ \A d \in DirsExamined : \E e \in log : e.rel = SrcRel(d) /\ e.kind = "dir"
        /\ processed_count + SkipSum
             = Cardinality(FilesExamined) + Cardinality(DirsRemoved)
        /\ total_skipped = SkipSum

\* C5 witness: a finished walk that dumped files, kept a subdirectory and
\* counted skips in at least three buckets.
C5_Witness ==
    /\ pc = "done"
    /\ processed_count > 0
    /\ \E e \in log : e.verdict = "kept"
    /\ skipped_excluded_dir > 1
    /\ skipped_read_error > 0
    /\ skipped_gitignore > 0
    /\ total_skipped = SkipSum

\* C6: a file skipped as binary (by extension or content) and a file skipped
\* as unreadable are never counted in the same counter.
C6_SeparateReasons ==
    \A e \in log, o \in log :
        (/\ e.verdict = "binary" /\ e.cause \in {"extension", "content"}
         /\ o.cause = "unreadable")
        => e.bucket # o.bucket

\* C7: a directory whose listing fails is skipped with its subtree, the walk
\* goes on to the end, and the skip is attributed to exactly one counted
\* reason; a file whose read fails gets no section and exactly one counter.
C7_NoSilentSkip ==
    pc = "done" =>
        /\ \A x \in io : x.op = "scandir_failed" =>
              /\ ~LoggedBelow(x.path) /\ ~DumpedBelow(x.path)
              /\ x.path # args.source =>
                    Cardinality({ e \in log : e.rel = SrcRel(x.path)
                                               /\ e.bucket # "none" }) = 1
        /\ \A e \in log : e.cause = "unreadable" =>
              /\ e.bucket = "read_error"
              /\ \A i \in 1..Len(md_file) : md_file[i] # PosixOf(e.rel)
        /\ total_skipped = SkipSum

\* the positions of main after the configuration checks have passed
PastChecks == {"gitignore", "open", "walk", "std_exclude", "dir_loop",
               "file_loop", "summary", "done"}

\* C8: with a source that is no directory, or an existing output and no
\* --force, main returns having created no directory, opened no file,
\* resolved no ignore file and listed nothing; it goes on only when the
\* configuration is valid, and with --force an existing output is overwritten.
C8_ConfigErrorsFatal ==
    /\ pc = "returned" =>
          /\ args.source \notin fs_dirs \/ (out_state = "old" /\ ~args.force)
          /\ io = {} /\ log = {} /\ md_file = <<>> /\ gitignore_map = <<>>
          /\ stack = <<>>
          /\ out_state # "written"
          /\ (args.output \in fs_files) <=> (out_state = "old")
          /\ out_state = "absent" /\ args.output[2] = <<"n","e","w">>
                => Parent(args.output) \notin fs_dirs
    /\ pc \in PastChecks =>
          /\ args.source \in fs_dirs
          /\ out_state = "old" => args.force
    /\ (pc \in PastChecks \ {"gitignore", "open"}) =>
          /\ out_state = "written"
          /\ [op |-> "open_w", path |-> args.output] \in io
    /\ (pc \in {"check_source", "check_output"}) => io = {}

\* C8 witness: main has returned on an output collision: the source is a
\* directory, the output exists and --force was not given.
C8_Witness ==
    /\ pc = "returned"
    /\ args.source \in fs_dirs
    /\ out_state = "old"
    /\ ~args.force
    /\ args.output \in fs_files

(***************************************************************************)
(* The order of the checks                                                 *)
(***************************************************************************)
\* the removal conditions of the subdirectory at rel, each taken alone
DirStdApplies(rel) == StdName(rel[Len(rel)])
DirPatternApplies(rel) == matched_by_exclude_pattern(PosixOf(rel))
DirIgnoreApplies(rel) == matches_gitignore(PosixOf(rel), gitignore_map)

\* the skip conditions of the file at rel, each taken alone
OutputApplies(rel) == args.source \o rel = args.output
BinaryApplies(rel) == is_binary_file(FileAt(args.source \o rel))
LiteralApplies(rel) == \E i \in 1..Len(rel) : rel[i] \in args.exclude
PatternApplies(rel) == file_matches_exclude_pattern(PosixOf(rel))
IgnoreApplies(rel) == matches_gitignore(PosixOf(rel), gitignore_map)

\* the first applicable condition in the claimed order, "none" without one
FirstDirReason(rel) ==
    IF DirStdApplies(rel) THEN "std_exclude"
    ELSE IF DirPatternApplies(rel) THEN "pattern"
    ELSE IF DirIgnoreApplies(rel) THEN "gitignore"
    ELSE "none"

FirstFileReason(rel) ==
    IF OutputApplies(rel) THEN "output"
    ELSE IF BinaryApplies(rel) THEN "binary"
    ELSE IF LiteralApplies(rel) THEN "std_exclude"
    ELSE IF PatternApplies(rel) THEN "pattern"
    ELSE IF IgnoreApplies(rel) THEN "gitignore"
    ELSE "none"

\* the counter main increments for a reason
CounterOf(reason) ==
    CASE reason = "std_exclude" -> "excluded_dir"
      [] reason = "pattern" -> "pattern_exclude"
      [] reason = "gitignore" -> "gitignore"
      [] reason = "output" -> "output_file"
      [] reason = "binary" -> "read_error"

\* C12: a subdirectory is attributed to the first applicable of literal or
\* hidden name, exclude pattern, ignore rule, and a file to the first
\* applicable of output path, binary, literal path segment, exclude pattern,
\* ignore rule; one counter is incremented, once, for that reason; a file is
\* emitted only when none of the five applies, and the output file is never
\* emitted.
C12_FirstCheckWins ==
    /\ CountersMatchLog
    /\ \A e \in log :
          /\ \A o \in log : o.rel = e.rel => o = e
          /\ e.kind = "dir" =>
                IF FirstDirReason(e.rel) = "none"
                THEN e.verdict = "kept" /\ e.bucket = "none"
                ELSE /\ e.verdict = FirstDirReason(e.rel)
                     /\ e.bucket = CounterOf(FirstDirReason(e.rel))
          /\ e.kind = "file" =>
                IF FirstFileReason(e.rel) = "none"
                THEN e.verdict \in {"dumped", "read_failed"}
                ELSE /\ e.verdict = FirstFileReason(e.rel)
                     /\ e.bucket = CounterOf(FirstFileReason(e.rel))
    /\ \A j \in 1..Len(md_file) :
          /\ args.source \o PathOf(md_file[j]) # args.output
          /\ \E e \in log : /\ e.kind = "file" /\ e.verdict = "dumped"
                             /\ PosixOf(e.rel) = md_file[j]
                             /\ FirstFileReason(e.rel) = "none"

\* C12 witness: a finished walk in which every pair of neighbouring
\* conditions met: a directory with an excluded name that an ignore rule
\* matches, a directory that a pattern and an ignore rule match, the output
\* file inside the source tree matching a pattern, a binary file matching a
\* pattern, a file named in the literal set matching a pattern, and a file
\* that a pattern and an ignore rule match.
C12_Witness ==
    /\ pc = "done"
    /\ \E e \in log : /\ e.kind = "dir" /\ DirStdApplies(e.rel) /\ DirIgnoreApplies(e.rel)
                       /\ e.bucket = "excluded_dir"
    /\ \E e \in log : /\ e.kind = "dir" /\ DirPatternApplies(e.rel) /\ DirIgnoreApplies(e.rel)
                       /\ e.bucket = "pattern_exclude"
    /\ \E e \in log : /\ e.kind = "file" /\ OutputApplies(e.rel) /\ PatternApplies(e.rel)
                       /\ e.bucket = "output_file"
    /\ \E e \in log : /\ e.kind = "file" /\ BinaryApplies(e.rel) /\ PatternApplies(e.rel)
                       /\ e.verdict = "binary"
    /\ \E e \in log : /\ e.kind = "file" /\ LiteralApplies(e.rel) /\ PatternApplies(e.rel)
                       /\ ~BinaryApplies(e.rel) /\ e.bucket = "excluded_dir"
    /\ \E e \in log : /\ e.kind = "file" /\ PatternApplies(e.rel) /\ IgnoreApplies(e.rel)
                       /\ ~LiteralApplies(e.rel) /\ ~BinaryApplies(e.rel)
                       /\ e.bucket = "pattern_exclude"
    /\ processed_count > 0

(***************************************************************************)
(* tree_gitignore.py: the filesystem its run sees                          *)
(***************************************************************************)
\* Path.is_file() and Path.is_dir(): true for a regular file and for a
\* directory; both are false for any other entry (a dangling link, a FIFO)
is_file(p) == p \in DOMAIN tree_env.kind /\ tree_env.kind[p] = "file"
is_dir(p) == p \in DOMAIN tree_env.kind /\ tree_env.kind[p] = "dir"

\* Path.iterdir(): the entries of d, in the order the filesystem gives them
iterdir(d) ==
    LET names == SelectSeq(tree_env.scan, LAMBDA n : Append(d, n) \in DOMAIN tree_env.kind)
    IN  [i \in 1..Len(names) |-> Append(d, names[i])]

\* the characters that occur in names, in code point order
CodePointOrder ==
    << "-",".","0","1","2","3","4","5","6","7","8","9",
       "A","B","C","D","E","F","G","H","I","J","K","L","M","N","O",
       "P","Q","R","S","T","U","V","W","X","Y","Z","_",
       "a","b","c","d","e","f","g","h","i","j","k","l","m","n","o",
       "p","q","r","s","t","u","v","w","x","y","z" >>

\* the rank of ord(c) among them
Ord(c) == CHOOSE i \in 1..Len(CodePointOrder) : CodePointOrder[i] = c

\* s < t for Python strings
StrLess(s, t) ==
    \E i \in 1..(Len(t)) :
        /\ \A j \in 1..(i - 1) : j <= Len(s) /\ s[j] = t[j]
        /\ \/ i = Len(s) + 1
           \/ i <= Len(s) /\ Ord(s[i]) < Ord(t[i])

\* the sort key of line 30
items_key(x) == [is_file |-> is_file(x), name |-> Lower(NameOf(x))]

\* k1 < k2 for the key tuples: False before True, then the names
KeyLess(k1, k2) ==
    \/ ~k1.is_file /\ k2.is_file
    \/ k1.is_file = k2.is_file /\ StrLess(k1.name, k2.name)

\* sorted(s, key=items_key): ascending by key, entries with equal keys in
\* the order they had in s
sorted(s) ==
    LET rank(i) == 1 + Cardinality({ j \in 1..Len(s) :
                          \/ KeyLess(items_key(s[j]), items_key(s[i]))
                          \/ items_key(s[j]) = items_key(s[i]) /\ j < i })
    IN  [k \in 1..Len(s) |-> s[CHOOSE i \in 1..Len(s) : rank(i) = k]]

(***************************************************************************)
(* tree_gitignore.py: the ignore spec                                      *)
(***************************************************************************)
RECURSIVE find_gitignore(_)
\* the nearest .gitignore file at current_path or above it, <<>> for None
find_gitignore(current_path) ==
    IF is_file(Append(current_path, <<".","g","i","t","i","g","n","o","r","e">>)) THEN Append(current_path, <<".","g","i","t","i","g","n","o","r","e">>)
    ELSE IF current_path = <<>> THEN <<>>
    ELSE find_gitignore(Parent(current_path))

\* the lines kept: not empty, and not a comment once stripped
load_gitignore_patterns(gitignore_path) ==
    IF gitignore_path = <<>> THEN <<>>
    ELSE SelectSeq(tree_env.gitignore[gitignore_path],
                   LAMBDA line : line # <<>> /\ ~StartsWith(Strip(line), <<"#">>))

\* one pattern of the gitwildmatch style against a path given by its
\* segments: a pattern without a slash matches a segment at any depth, and
\* with it everything beneath; a pattern whose only slash is the last
\* character matches what lies beneath a segment it names, not the segment
\* itself (the path of a directory is passed without a trailing slash); any
\* other pattern is anchored at the root of the spec
GitWildMatch(pattern, parts) ==
    LET body == RStrip(pattern, "/")
        inner == \E i \in 1..Len(body) : body[i] = "/"
        anchored == PathOf(IF StartsWith(body, <<"/">>) THEN DropFirst(body, 1) ELSE body)
    IN  IF inner
        THEN /\ Len(anchored) <= Len(parts)
             /\ \A i \in 1..Len(anchored) : fnmatch(parts[i], anchored[i])
             /\ EndsWith(pattern, <<"/">>) => Len(anchored) < Len(parts)
        ELSE IF EndsWith(pattern, <<"/">>)
        THEN \E i \in 1..(Len(parts) - 1) : fnmatch(parts[i], body)
        ELSE \E i \in 1..Len(parts) : fnmatch(parts[i], body)

\* spec.match_file(str(item_abs.relative_to(gitignore_root)))
match_file(item_abs) ==
    \E i \in 1..Len(tree_patterns) : GitWildMatch(tree_patterns[i], RelativeTo(item_abs, gitignore_root))

\* lines 30 and 39-42 of build_tree
items_abs(current_dir_path) == sorted(iterdir(current_dir_path))
filtered_items_abs(current_dir_path) ==
    SelectSeq(items_abs(current_dir_path), LAMBDA item_abs : ~match_file(item_abs))

(***************************************************************************)
(* tree_gitignore.py: the runs considered                                  *)
(***************************************************************************)
\* the order in which the filesystem enumerates the names of the tree
TreeNameOrder ==
    << <<"z">>, <<"m",".","t","x","t">>, <<"a">>, <<"c",".","M","D">>, <<"B">>, <<"C",".","m","d">>, <<"k">>, <<".","g","i","t">>, <<"b",".","l","o","g">>, <<"b","u","i","l","d">>,
       <<".","g","i","t","i","g","n","o","r","e">>, <<"x",".","p","y">>, <<"Y",".","p","y">>, <<"a",".","t","x","t">>, <<"o","u","t",".","t","x","t">>, <<"c","o","n","f","i","g">>, <<"p","r","o","j">>, <<"w">> >>

\* the directories and the regular files of the tree
SampleTreeDirs ==
    { <<>>, << <<"w">> >>, SRC, SRC \o << <<"z">> >>, SRC \o << <<"a">> >>, SRC \o << <<"B">> >>,
      SRC \o << <<".","g","i","t">> >>, SRC \o << <<"b","u","i","l","d">> >>, SRC \o << <<"z">>, <<".","g","i","t">> >> }
SampleTreeFiles ==
    { SRC \o << <<"m",".","t","x","t">> >>, SRC \o << <<"b",".","l","o","g">> >>, SRC \o << <<"C",".","m","d">> >>, SRC \o << <<"c",".","M","D">> >>,
      SRC \o << <<"z">>, <<"x",".","p","y">> >>, SRC \o << <<"z">>, <<"Y",".","p","y">> >>, SRC \o << <<"z">>, <<"b",".","l","o","g">> >>,
      SRC \o << <<"z">>, <<".","g","i","t">>, <<"c","o","n","f","i","g">> >>,
      SRC \o << <<"a">>, <<"a",".","t","x","t">> >>, SRC \o << <<"b","u","i","l","d">>, <<"o","u","t",".","t","x","t">> >>,
      SRC \o << <<".","g","i","t">>, <<"c","o","n","f","i","g">> >> }

\* entries that are neither: a dangling link in the start directory and one
\* below it
SampleTreeOthers == { {}, { SRC \o << <<"k">> >>, SRC \o << <<"z">>, <<"k">> >> } }

\* the ignore files: none, one in the start directory, one above it
SampleTreeGitignores ==
    { NoGitignore,
      (SRC \o << <<".","g","i","t","i","g","n","o","r","e">> >>) :> << <<"#"," ","l","o","g","s">>, <<>>, <<"*",".","l","o","g">>, <<"b","u","i","l","d","/">> >>,
      (<< <<"w">>, <<".","g","i","t","i","g","n","o","r","e">> >>) :> << <<"z">>, <<"/","p","r","o","j","/","m",".","t","x","t">> >> }

SampleStartDirs == { SRC, SRC \o << <<"z">> >>, SRC \o << <<"m","i","s","s","i","n","g">> >> }
SampleDenied == { {}, { SRC \o << <<"a">> >> } }

TreeKinds(others, gitignores) ==
    [ p \in SampleTreeDirs \cup SampleTreeFiles \cup others \cup DOMAIN gitignores |->
        IF p \in SampleTreeDirs THEN "dir" ELSE IF p \in others THEN "other" ELSE "file" ]

NoCall == [directory |-> <<>>, prefix |-> <<>>, at |-> "enter", items |-> <<>>]

TreeInit ==
    /\ \E others \in SampleTreeOthers, gi \in SampleTreeGitignores,
          denied \in SampleDenied, reverse \in BOOLEAN :
          tree_env = [ kind |-> TreeKinds(others, gi), gitignore |-> gi, denied |-> denied,
                       scan |-> IF reverse THEN Reverse(TreeNameOrder) ELSE TreeNameOrder ]
    /\ start_dir \in SampleStartDirs
    /\ tree_pc = "main"
    /\ gitignore_root = <<>>
    /\ tree_patterns = <<>>
    /\ calls = <<>>
    /\ tree_out = <<>>
    /\ MainIdle
    /\ BinIdle

(***************************************************************************)
(* tree_gitignore.py: main() and build_tree()                              *)
(***************************************************************************)
Line(kind, path, slash, prefix, pointer) ==
    [kind |-> kind, path |-> path, slash |-> slash, prefix |-> prefix, pointer |-> pointer]

\* lines 61-63: the start directory must be a directory
TreeNotADirectory ==
    /\ tree_pc = "main"
    /\ ~is_dir(start_dir)
    /\ tree_out' = Append(tree_out, Line("error", start_dir, FALSE, <<>>, "none"))
    /\ tree_pc' = "done"
    /\ UNCHANGED <<tree_env, start_dir, gitignore_root, tree_patterns, calls, mainvars, binvars>>

\* lines 65-74: the nearest ignore file up the tree gives the root and the
\* patterns, '.git' is added, the header is printed and build_tree is called
TreeMain ==
    /\ tree_pc = "main"
    /\ is_dir(start_dir)
    /\ LET gitignore_path == find_gitignore(start_dir)
       IN  /\ gitignore_root' = IF gitignore_path # <<>> THEN Parent(gitignore_path)
                                ELSE start_dir
           /\ tree_patterns' = load_gitignore_patterns(gitignore_path) \o << <<".","g","i","t">> >>
    /\ tree_out' = Append(tree_out, Line("header", start_dir, TRUE, <<>>, "none"))
    /\ calls' = << [NoCall EXCEPT !.directory = start_dir] >>
    /\ tree_pc' = "tree"
    /\ UNCHANGED <<tree_env, start_dir, mainvars, binvars>>

\* lines 28-33: iterdir raises PermissionError
BuildTreeDenied ==
    /\ tree_pc = "tree"
    /\ calls # <<>>
    /\ Head(calls).at = "enter"
    /\ Head(calls).directory \in tree_env.denied
    /\ tree_out' = Append(tree_out, Line("denied", Head(calls).directory, TRUE,
                                         Head(calls).prefix, "last"))
    /\ calls' = Tail(calls)
    /\ tree_pc' = IF Tail(calls) = <<>> THEN "done" ELSE "tree"
    /\ UNCHANGED <<tree_env, start_dir, gitignore_root, tree_patterns, mainvars, binvars>>

\* lines 27-44: the entries are listed, sorted and filtered
BuildTreeList ==
    /\ tree_pc = "tree"
    /\ calls # <<>>
    /\ Head(calls).at = "enter"
    /\ Head(calls).directory \notin tree_env.denied
    /\ calls' = << [Head(calls) EXCEPT !.at = "loop",
                                       !.items = filtered_items_abs(Head(calls).directory)] >>
                  \o Tail(calls)
    /\ UNCHANGED <<tree_env, start_dir, tree_pc, gitignore_root, tree_patterns, tree_out,
                   mainvars, binvars>>

\* lines 46-52: the next entry is printed, and build_tree is called on it
\* when it is a directory
BuildTreePrint ==
    /\ tree_pc = "tree"
    /\ calls # <<>>
    /\ Head(calls).at = "loop"
    /\ Head(calls).items # <<>>
    /\ LET item_abs_path == Head(Head(calls).items)
           pointer == IF Len(Head(calls).items) > 1 THEN "tee" ELSE "last"
           extension == IF pointer = "tee" THEN "bar" ELSE "blank"
           rest == [Head(calls) EXCEPT !.items = Tail(Head(calls).items)]
       IN  /\ tree_out' = Append(tree_out, Line("entry", item_abs_path, is_dir(item_abs_path),
                                                Head(calls).prefix, pointer))
           /\ calls' = (IF is_dir(item_abs_path)
                        THEN << [NoCall EXCEPT !.directory = item_abs_path,
                                               !.prefix = Append(Head(calls).prefix, extension)] >>
                        ELSE <<>>)
                       \o << rest >> \o Tail(calls)
    /\ UNCHANGED <<tree_env, start_dir, tree_pc, gitignore_root, tree_patterns, mainvars, binvars>>

\* the loop of lines 46-52 is over: build_tree returns
BuildTreeReturn ==
    /\ tree_pc = "tree"
    /\ calls # <<>>
    /\ Head(calls).at = "loop"
    /\ Head(calls).items = <<>>
    /\ calls' = Tail(calls)
    /\ tree_pc' = IF Tail(calls) = <<>> THEN "done" ELSE "tree"
    /\ UNCHANGED <<tree_env, start_dir, gitignore_root, tree_patterns, tree_out, mainvars, binvars>>

TreeNext ==
    \/ TreeNotADirectory \/ TreeMain
    \/ BuildTreeDenied \/ BuildTreeList \/ BuildTreePrint \/ BuildTreeReturn

SpecTree == TreeInit /\ [][TreeNext]_vars

(***************************************************************************)
(* Claims about the tree printer                                           *)
(***************************************************************************)
\* the entries printed for the directory d, in the order printed
PrintedIn(d) ==
    SelectSeq(tree_out, LAMBDA l : l.kind = "entry" /\ Parent(l.path) = d)

\* the directories build_tree has listed entries of
LevelsPrinted == { Parent(tree_out[i].path) : i \in { j \in 1..Len(tree_out) : tree_out[j].kind = "entry" } }

\* case-insensitive a <= b for names
NameLeq(a, b) == ~StrLess(Lower(b), Lower(a))

\* where the entry p stands in the sorted listing of its directory
PlaceOf(p) ==
    CHOOSE i \in 1..Len(items_abs(Parent(p))) : items_abs(Parent(p))[i] = p

\* p or a directory between start_dir and p matches the ignore spec
IgnoredOnTheWay(p) ==
    \E n \in (Len(start_dir) + 1)..Len(p) : match_file(SubSeq(p, 1, n))

\* build_tree has returned from the directory d
LevelDone(d) ==
    /\ \A i \in 1..Len(calls) : calls[i].directory # d
    /\ d \notin tree_env.denied

\* C11: at every directory level the printed entries list all subdirectories
\* before all files, each group in case-insensitive ascending order of name;
\* an entry matching the ignore spec (the implicit '.git' rule included) is
\* neither printed nor descended into; and the entries left keep the relative
\* order of the sorted listing, none of them missing.
C11_DisplayOrder ==
    /\ \A d \in LevelsPrinted :
          LET L == PrintedIn(d)
          IN  /\ \A i \in 1..Len(L), j \in 1..Len(L) :
                    i < j => /\ ~(~L[i].slash /\ L[j].slash)
                             /\ (L[i].slash = L[j].slash)
                                   => NameLeq(NameOf(L[i].path), NameOf(L[j].path))
                             /\ PlaceOf(L[i].path) < PlaceOf(L[j].path)
              /\ LevelDone(d) =>
                    \A k \in 1..Len(items_abs(d)) :
                        (~match_file(items_abs(d)[k]))
                           <=> (\E i \in 1..Len(L) : L[i].path = items_abs(d)[k])
    /\ \A i \in 1..Len(tree_out) :
          tree_out[i].kind = "entry" =>
              /\ ~IgnoredOnTheWay(tree_out[i].path)
              /\ tree_out[i].slash = is_dir(tree_out[i].path)
              /\ NameOf(tree_out[i].path) # <<".","g","i","t">>

====
